---- MODULE Spec2Model ----
(***************************************************************************)
(* A model of polar-core/src/query.rs: the goal-resolution engine.         *)
(* A State is a binding map; walk, unify and isa operate on it; a goal     *)
(* (Term, Operation, Call) run from a State produces a sequence of States; *)
(* Query::run projects the solution States to records.                     *)
(***************************************************************************)
EXTENDS Integers, Sequences, FiniteSets, TLC

(***************************************************************************)
(* Bounds of the model.                                                    *)
(***************************************************************************)
\* Numbers that occur in terms are 1..MaxNum.
MaxNum == 2
\* The number of operations applied to one resolution branch.
MaxOps == 2

(***************************************************************************)
(* Terms.  A Term is modelled by its Value: Term equality compares values, *)
(* and Term::new_temporary / clone_with_value only wrap a value.           *)
(***************************************************************************)
None == "None"
Names == {"x", "y"}
Tags == {"Foo", "Bar"}
Nums == 1..MaxNum

Variable(name, type_info) ==
    [kind |-> "Variable", name |-> name, type_info |-> type_info]
\* Variable::new: a variable without a type tag
Var(name) == Variable(name, None)
Number(n) == [kind |-> "Number", n |-> n]
Boolean(b) == [kind |-> "Boolean", b |-> b]
InstanceLiteral(tag) == [kind |-> "InstanceLiteral", tag |-> tag]
Call(name, args) == [kind |-> "Call", name |-> name, args |-> args]
Operation(operator, args) ==
    [kind |-> "Expression", operator |-> operator, args |-> args]
\* Option<Term>::None, for a parameter without a specializer
NoTerm == [kind |-> "None"]
Parameter(parameter, specializer) ==
    [parameter |-> parameter, specializer |-> specializer]
Rule(params, body) == [params |-> params, body |-> body]

\* What a recursion that never returns "evaluates to".
Diverged == [kind |-> "Diverged"]

\* An empty HashMap, and HashMap::insert.
EmptyBindings == [n \in {} |-> Diverged]
Insert(bindings, name, term) ==
    [n \in (DOMAIN bindings) \cup {name} |->
        IF n = name THEN term ELSE bindings[n]]

(***************************************************************************)
(* State::walk                                                             *)
(***************************************************************************)
\* A walk that returns visits a name at most twice; more steps than this
\* means the recursion runs through a cycle and never returns.
WalkFuel == 2 * Cardinality(Names) + 2

RECURSIVE walkN(_, _, _)
walkN(bindings, term, fuel) ==
    IF term.kind # "Variable" THEN term
    ELSE IF term.name \notin DOMAIN bindings THEN term
    ELSE IF bindings[term.name] = term THEN bindings[term.name]
    ELSE IF fuel = 0 THEN Diverged
    ELSE walkN(bindings, bindings[term.name], fuel - 1)

\* walk as it would be without the recursive call: one lookup, no chain
walk_one_step(bindings, term) ==
    IF term.kind = "Variable" /\ term.name \in DOMAIN bindings
    THEN bindings[term.name] ELSE term

walk(bindings, term) == walkN(bindings, term, WalkFuel)

(***************************************************************************)
(* State::unify and State::isa.  Both return the bool of the code as ok,   *)
(* the bindings as the call leaves them, and abort: whether the call       *)
(* never returned (a walk that recursed without end).                      *)
(***************************************************************************)
Ret(ok, bindings) == [ok |-> ok, bindings |-> bindings, abort |-> FALSE]
Hangs(bindings) == [ok |-> FALSE, bindings |-> bindings, abort |-> TRUE]

\* unify as it would be without the second alternative of the pattern
\* (match_var!(var), value) | (value, match_var!(var))
unify_left_only(bindings, left, right) ==
    LET l == walk(bindings, left)
        r == walk(bindings, right)
    IN  IF l = Diverged \/ r = Diverged THEN Hangs(bindings)
        ELSE IF l = r THEN Ret(TRUE, bindings)
        ELSE IF l.kind = "Variable" THEN Ret(TRUE, Insert(bindings, l.name, r))
        ELSE Ret(FALSE, bindings)

\* unify as it would be if it bound each of two variables to the other
unify_binds_both(bindings, left, right) ==
    LET l == walk(bindings, left)
        r == walk(bindings, right)
    IN  IF l = Diverged \/ r = Diverged THEN Hangs(bindings)
        ELSE IF l = r THEN Ret(TRUE, bindings)
        ELSE IF l.kind = "Variable" /\ r.kind = "Variable"
        THEN Ret(TRUE, Insert(Insert(bindings, l.name, r), r.name, l))
        ELSE IF l.kind = "Variable" THEN Ret(TRUE, Insert(bindings, l.name, r))
        ELSE IF r.kind = "Variable" THEN Ret(TRUE, Insert(bindings, r.name, l))
        ELSE Ret(FALSE, bindings)

\* unify as it would be if it bound the left term's own name without
\* walking it
unify_left_unwalked(bindings, left, right) ==
    LET l == walk(bindings, left)
        r == walk(bindings, right)
    IN  IF l = Diverged \/ r = Diverged THEN Hangs(bindings)
        ELSE IF l = r THEN Ret(TRUE, bindings)
        ELSE IF left.kind = "Variable"
        THEN Ret(TRUE, Insert(bindings, left.name, r))
        ELSE IF r.kind = "Variable" THEN Ret(TRUE, Insert(bindings, r.name, l))
        ELSE Ret(FALSE, bindings)

unify(bindings, left, right) ==
    LET l == walk(bindings, left)
        r == walk(bindings, right)
    IN  IF l = Diverged \/ r = Diverged THEN Hangs(bindings)
        ELSE IF l = r THEN Ret(TRUE, bindings)
        ELSE IF l.kind = "Variable" THEN Ret(TRUE, Insert(bindings, l.name, r))
        ELSE IF r.kind = "Variable" THEN Ret(TRUE, Insert(bindings, r.name, l))
        ELSE Ret(FALSE, bindings)

isa(bindings, left, right) ==
    LET l == walk(bindings, left)
        r == walk(bindings, right)
    IN  IF l = Diverged \/ r = Diverged THEN Hangs(bindings)
        ELSE IF l = r THEN Ret(TRUE, bindings)
        ELSE IF l.kind = "Variable" /\ r.kind = "InstanceLiteral"
        THEN IF l.type_info # None
             THEN Ret(l.type_info = r.tag, bindings)
             ELSE Ret(TRUE, Insert(bindings, l.name, Variable(l.name, r.tag)))
        ELSE Ret(FALSE, bindings)

(***************************************************************************)
(* The state of a resolution branch and of the query.                      *)
(*   kb        the knowledge base: for each rule name that has a rule      *)
(*             group, the ordered candidate rules it returns for a call    *)
(*   bindings  State.bindings of the branch                                *)
(*   last      the last operation applied to the branch, with its outcome  *)
(*   results   the State sequence the last goal produced from bindings     *)
(*   records   the records the last Query::run produced                    *)
(***************************************************************************)
VARIABLES kb, bindings, last, results, records

vars == <<kb, bindings, last, results, records>>

(***************************************************************************)
(* Result sequences.  A lazy iterator of the code is modelled by the       *)
(* items it delivers, in order, and by how it ends: NoAbort when it is     *)
(* exhausted, or the panic (or endless recursion) that the pull after the  *)
(* last delivered item runs into.                                          *)
(***************************************************************************)
NoAbort == "none"
Todo == "todo: not implemented"
NoMatchingRules == "no matching rules"
MustBeBound == "must be bound"
Endless == "recursion without end"

Results(out, abort) == [out |-> out, abort |-> abort]
once(state) == Results(<<state>>, NoAbort)
empty == Results(<<>>, NoAbort)

\* How deep rule bodies may call rules before the recursion counts as endless.
MaxDepth == 2

Min(a, b) == IF a < b THEN a ELSE b

(***************************************************************************)
(* Call::run, lines 79-98: the loop over zip(args, params).                *)
(* The record m is the loop's state: inner_state, applicable, variables,   *)
(* plus what it has evaluated so far (the unify and isa calls it made).    *)
(***************************************************************************)
MatchStart ==
    [inner |-> EmptyBindings, applicable |-> TRUE, variables |-> <<>>,
     abort |-> FALSE, unified |-> 0, isa_checked |-> 0]

\* the loop as it would be if a failed isa did not reject the candidate
RECURSIVE match_params_isa_ignored(_, _, _, _, _)
match_params_isa_ignored(args, params, i, state, m) ==
    IF i > Min(Len(args), Len(params)) THEN m
    ELSE
    LET arg == walk(state, args[i])
    IN  IF arg = Diverged
        THEN [m EXCEPT !.abort = TRUE, !.applicable = FALSE]
        ELSE
        LET vs == IF arg.kind = "Variable"
                  THEN Append(m.variables, arg.name) ELSE m.variables
            u == unify(m.inner, arg, params[i].parameter)
            m1 == [m EXCEPT !.variables = vs, !.inner = u.bindings,
                            !.unified = m.unified + 1]
        IN  IF u.abort THEN [m1 EXCEPT !.abort = TRUE, !.applicable = FALSE]
            ELSE IF ~u.ok THEN [m1 EXCEPT !.applicable = FALSE]
            ELSE IF params[i].specializer = NoTerm
            THEN match_params_isa_ignored(args, params, i + 1, state, m1)
            ELSE
            LET s == isa(u.bindings, arg, params[i].specializer)
                m2 == [m1 EXCEPT !.inner = s.bindings,
                                 !.isa_checked = m.isa_checked + 1]
            IN  match_params_isa_ignored(args, params, i + 1, state, m2)

\* the loop as it would be without its two break statements
RECURSIVE match_params_no_break(_, _, _, _, _)
match_params_no_break(args, params, i, state, m) ==
    IF i > Min(Len(args), Len(params)) THEN m
    ELSE
    LET arg == walk(state, args[i])
    IN  IF arg = Diverged
        THEN [m EXCEPT !.abort = TRUE, !.applicable = FALSE]
        ELSE
        LET vs == IF arg.kind = "Variable"
                  THEN Append(m.variables, arg.name) ELSE m.variables
            u == unify(m.inner, arg, params[i].parameter)
            m1 == [m EXCEPT !.variables = vs, !.inner = u.bindings,
                            !.unified = m.unified + 1,
                            !.applicable = m.applicable /\ u.ok]
        IN  IF u.abort THEN [m1 EXCEPT !.abort = TRUE, !.applicable = FALSE]
            ELSE IF params[i].specializer = NoTerm
            THEN match_params_no_break(args, params, i + 1, state, m1)
            ELSE
            LET s == isa(u.bindings, arg, params[i].specializer)
                m2 == [m1 EXCEPT !.inner = s.bindings,
                                 !.isa_checked = m.isa_checked + 1,
                                 !.applicable = m1.applicable /\ s.ok]
            IN  IF s.abort THEN [m2 EXCEPT !.abort = TRUE, !.applicable = FALSE]
                ELSE match_params_no_break(args, params, i + 1, state, m2)

RECURSIVE match_params(_, _, _, _, _)
match_params(args, params, i, state, m) ==
    IF i > Min(Len(args), Len(params)) THEN m
    ELSE
    LET arg == walk(state, args[i])
    IN  IF arg = Diverged
        THEN [m EXCEPT !.abort = TRUE, !.applicable = FALSE]
        ELSE
        LET vs == IF arg.kind = "Variable"
                  THEN Append(m.variables, arg.name) ELSE m.variables
            u == unify(m.inner, arg, params[i].parameter)
            m1 == [m EXCEPT !.variables = vs, !.inner = u.bindings,
                            !.unified = m.unified + 1]
        IN  IF u.abort THEN [m1 EXCEPT !.abort = TRUE, !.applicable = FALSE]
            ELSE IF ~u.ok THEN [m1 EXCEPT !.applicable = FALSE]
            ELSE IF params[i].specializer = NoTerm
            THEN match_params(args, params, i + 1, state, m1)
            ELSE
            LET s == isa(u.bindings, arg, params[i].specializer)
                m2 == [m1 EXCEPT !.inner = s.bindings,
                                 !.isa_checked = m.isa_checked + 1]
            IN  IF s.abort THEN [m2 EXCEPT !.abort = TRUE, !.applicable = FALSE]
                ELSE IF ~s.ok THEN [m2 EXCEPT !.applicable = FALSE]
                ELSE match_params(args, params, i + 1, state, m2)

(***************************************************************************)
(* Call::run, lines 103-116: the closure that maps a result of the body    *)
(* (an inner state) back to a copy of the caller's state.                  *)
(***************************************************************************)
\* the closure as it would be if it installed the binding without walking it
RECURSIVE recombine_unwalked(_, _, _, _)
recombine_unwalked(new_state, inner_state, variables, i) ==
    IF i > Len(variables) THEN [bindings |-> new_state, abort |-> NoAbort]
    ELSE
    LET v == variables[i]
    IN  IF v \notin DOMAIN inner_state
        THEN [bindings |-> new_state, abort |-> MustBeBound]
        ELSE recombine_unwalked(Insert(new_state, v, inner_state[v]),
                                inner_state, variables, i + 1)

RECURSIVE recombine(_, _, _, _)
recombine(new_state, inner_state, variables, i) ==
    IF i > Len(variables) THEN [bindings |-> new_state, abort |-> NoAbort]
    ELSE
    LET v == variables[i]
    IN  IF v \notin DOMAIN inner_state
        THEN [bindings |-> new_state, abort |-> MustBeBound]
        ELSE
        LET t == walk(inner_state, inner_state[v])
        IN  IF t = Diverged THEN [bindings |-> new_state, abort |-> Endless]
            ELSE recombine(Insert(new_state, v, t), inner_state, variables, i + 1)

RECURSIVE map_recombine(_, _, _, _)
map_recombine(inner_results, i, state, variables) ==
    IF i > Len(inner_results.out) THEN Results(<<>>, inner_results.abort)
    ELSE
    LET n == recombine(state, inner_results.out[i], variables, 1)
    IN  IF n.abort # NoAbort THEN Results(<<>>, n.abort)
        ELSE
        LET rest == map_recombine(inner_results, i + 1, state, variables)
        IN  Results(<<n.bindings>> \o rest.out, rest.abort)

(***************************************************************************)
(* The goals: Term::run, Operation::run, Call::run.  depth counts the      *)
(* calls a rule body may still nest.                                       *)
(***************************************************************************)
RECURSIVE Term_run(_, _, _)
RECURSIVE Operation_run(_, _, _)
RECURSIVE Call_run(_, _, _)
RECURSIVE candidate_run(_, _, _, _)
RECURSIVE flat_map_rules(_, _, _, _, _)
RECURSIVE flat_map_rules_shared(_, _, _, _, _)
RECURSIVE flat_map_term(_, _, _, _)
RECURSIVE fold_and(_, _, _, _)

\* Call::run, lines 68-120: the closure flat_map applies to one rule r.
candidate_run(call, r, state, depth) ==
    LET m == match_params(call.args, r.params, 1, state, MatchStart)
    IN  IF m.abort THEN Results(<<>>, Endless)
        ELSE IF m.applicable
        THEN map_recombine(Term_run(r.body, m.inner, depth), 1, state,
                           m.variables)
        ELSE empty

\* flat_map over the rules as it would be if the candidates shared one
\* State: each candidate starts from the last result of the one before
flat_map_rules_shared(call, rules, i, state, depth) ==
    IF i > Len(rules) THEN empty
    ELSE
    LET r == candidate_run(call, rules[i], state, depth)
    IN  IF r.abort # NoAbort THEN r
        ELSE
        LET next == IF r.out = <<>> THEN state ELSE r.out[Len(r.out)]
            rest == flat_map_rules_shared(call, rules, i + 1, next, depth)
        IN  Results(r.out \o rest.out, rest.abort)

\* rules.into_iter().flat_map(...)
flat_map_rules(call, rules, i, state, depth) ==
    IF i > Len(rules) THEN empty
    ELSE
    LET r == candidate_run(call, rules[i], state, depth)
    IN  IF r.abort # NoAbort THEN r
        ELSE
        LET rest == flat_map_rules(call, rules, i + 1, state, depth)
        IN  Results(r.out \o rest.out, rest.abort)

\* kb.get_generic_rule(name).expect(..).get_applicable_rules(args)
get_applicable_rules(call) == kb[call.name]

\* Call::run as it would be if a name without a rule group had no candidates
Call_run_no_group_empty(call, state, depth) ==
    IF call.name \notin DOMAIN kb THEN empty
    ELSE IF depth = 0 THEN Results(<<>>, Endless)
    ELSE flat_map_rules(call, get_applicable_rules(call), 1, state, depth - 1)

Call_run(call, state, depth) ==
    IF call.name \notin DOMAIN kb THEN Results(<<>>, NoMatchingRules)
    ELSE IF depth = 0 THEN Results(<<>>, Endless)
    ELSE flat_map_rules(call, get_applicable_rules(call), 1, state, depth - 1)

\* the fold step as it would be with map-and-take-first for flat_map: only
\* the first of the states goes on to the next conjunct
flat_map_first_only(states, i, term, depth) ==
    IF i > Len(states.out) \/ i > 1 THEN Results(<<>>, states.abort)
    ELSE Term_run(term, states.out[i], depth)

\* states.flat_map(move |state| term.clone().run(state))
flat_map_term(states, i, term, depth) ==
    IF i > Len(states.out) THEN Results(<<>>, states.abort)
    ELSE
    LET r == Term_run(term, states.out[i], depth)
    IN  IF r.abort # NoAbort THEN r
        ELSE
        LET rest == flat_map_term(states, i + 1, term, depth)
        IN  Results(r.out \o rest.out, rest.abort)

\* self.args.into_iter().fold(once(state), |states, term| ...)
fold_and(states, args, i, depth) ==
    IF i > Len(args) THEN states
    ELSE fold_and(flat_map_term(states, 1, args[i], depth), args, i + 1, depth)

Operation_run(op, state, depth) ==
    IF op.operator \in {"Unify", "Eq"}
    THEN LET u == unify(state, op.args[1], op.args[2])
         IN  IF u.abort THEN Results(<<>>, Endless)
             ELSE IF u.ok THEN once(u.bindings) ELSE empty
    ELSE IF op.operator = "And" THEN fold_and(once(state), op.args, 1, depth)
    ELSE Results(<<>>, Todo)

\* Term::run as it would be if the arm for the other values were empty()
Term_run_other_empty(term, state, depth) ==
    IF term.kind = "Call" THEN Call_run(term, state, depth)
    ELSE IF term.kind = "Expression" THEN Operation_run(term, state, depth)
    ELSE IF term.kind = "Boolean" THEN (IF term.b THEN once(state) ELSE empty)
    ELSE empty

Term_run(term, state, depth) ==
    IF term.kind = "Call" THEN Call_run(term, state, depth)
    ELSE IF term.kind = "Expression" THEN Operation_run(term, state, depth)
    ELSE IF term.kind = "Boolean" THEN (IF term.b THEN once(state) ELSE empty)
    ELSE Results(<<>>, Todo)

(***************************************************************************)
(* The order of evaluation.  The iterators of the code are lazy: a closure *)
(* given to flat_map or map runs when the consumer pulls the item it is    *)
(* applied to.  The log of a goal is the sequence of the events of its     *)
(* evaluation when it is pulled to the end, in the order they happen:      *)
(*   run       Term::run is entered (println "run term", line 127); depth  *)
(*             tells the goal of the query from the body of a rule         *)
(*   matching  the closure of Call::run is entered for the j-th candidate  *)
(*             (println "matching", line 69)                               *)
(*   yield     a State is delivered to the consumer                        *)
(*   abort     a panic, or a recursion without end: nothing follows it     *)
(* A consumer that pulls n items and stops has caused the events up to the *)
(* n-th yield, and no later one.                                           *)
(***************************************************************************)
RunTerm(term, state, depth) ==
    [ev |-> "run", term |-> term, state |-> state, depth |-> depth]
Matching(call, j) == [ev |-> "matching", call |-> call, rule |-> j]
Yield(state) == [ev |-> "yield", state |-> state]
Abort(kind) == [ev |-> "abort", kind |-> kind]

Aborted(log) == log # <<>> /\ log[Len(log)].ev = "abort"

RECURSIVE Term_log(_, _, _)
RECURSIVE Operation_log(_, _, _)
RECURSIVE Call_log(_, _, _)
RECURSIVE candidate_log(_, _, _, _)
RECURSIVE flat_map_rules_log(_, _, _, _, _)
RECURSIVE flat_map_rules_collected(_, _, _, _, _)
RECURSIVE map_recombine_log(_, _, _, _)
RECURSIVE flat_map_term_log(_, _, _, _)
RECURSIVE fold_and_log(_, _, _, _)

\* .map(move |inner_state| ...) over the results of the body: the closure
\* runs when the body delivers a state
map_recombine_log(log, i, state, variables) ==
    IF i > Len(log) THEN <<>>
    ELSE IF log[i].ev = "yield"
    THEN LET n == recombine(state, log[i].state, variables, 1)
         IN  IF n.abort # NoAbort THEN <<Abort(n.abort)>>
             ELSE <<Yield(n.bindings)>>
                  \o map_recombine_log(log, i + 1, state, variables)
    ELSE <<log[i]>> \o map_recombine_log(log, i + 1, state, variables)

\* the closure flat_map applies to the rule r, once it is entered
candidate_log(call, r, state, depth) ==
    LET m == match_params(call.args, r.params, 1, state, MatchStart)
    IN  IF m.abort THEN <<Abort(Endless)>>
        ELSE IF m.applicable
        THEN map_recombine_log(Term_log(r.body, m.inner, depth), 1, state,
                               m.variables)
        ELSE <<>>

\* flat_map over the rules as it would be if every candidate were evaluated
\* before the first result is delivered (the results collected)
flat_map_rules_collected(call, rules, j, state, depth) ==
    IF j > Len(rules) THEN <<>>
    ELSE
    LET c == <<Matching(call, j)>> \o candidate_log(call, rules[j], state, depth)
        rest == IF Aborted(c) THEN <<>>
                ELSE flat_map_rules_collected(call, rules, j + 1, state, depth)
        all == c \o rest
    IN  SelectSeq(all, LAMBDA e : e.ev \notin {"yield", "abort"})
        \o SelectSeq(all, LAMBDA e : e.ev = "yield")
        \o SelectSeq(all, LAMBDA e : e.ev = "abort")

\* rules.into_iter().flat_map(..): the closure is entered for the next rule
\* when the results of the rule before are exhausted
flat_map_rules_log(call, rules, j, state, depth) ==
    IF j > Len(rules) THEN <<>>
    ELSE
    LET c == <<Matching(call, j)>> \o candidate_log(call, rules[j], state, depth)
    IN  IF Aborted(c) THEN c
        ELSE c \o flat_map_rules_log(call, rules, j + 1, state, depth)

Call_log(call, state, depth) ==
    IF call.name \notin DOMAIN kb THEN <<Abort(NoMatchingRules)>>
    ELSE IF depth = 0 THEN <<Abort(Endless)>>
    ELSE flat_map_rules_log(call, get_applicable_rules(call), 1, state,
                            depth - 1)

\* states.flat_map(move |state| term.clone().run(state)): term is run on a
\* state when states delivers it, and states is pulled again when the
\* results of that run are exhausted
flat_map_term_log(log, i, term, depth) ==
    IF i > Len(log) THEN <<>>
    ELSE IF log[i].ev = "yield"
    THEN LET sub == Term_log(term, log[i].state, depth)
         IN  IF Aborted(sub) THEN sub
             ELSE sub \o flat_map_term_log(log, i + 1, term, depth)
    ELSE <<log[i]>> \o flat_map_term_log(log, i + 1, term, depth)

fold_and_log(log, args, i, depth) ==
    IF i > Len(args) THEN log
    ELSE fold_and_log(flat_map_term_log(log, 1, args[i], depth), args, i + 1,
                      depth)

Operation_log(op, state, depth) ==
    IF op.operator \in {"Unify", "Eq"}
    THEN LET u == unify(state, op.args[1], op.args[2])
         IN  IF u.abort THEN <<Abort(Endless)>>
             ELSE IF u.ok THEN <<Yield(u.bindings)>> ELSE <<>>
    ELSE IF op.operator = "And"
    THEN fold_and_log(<<Yield(state)>>, op.args, 1, depth)
    ELSE <<Abort(Todo)>>

Term_log(term, state, depth) ==
    <<RunTerm(term, state, depth)>>
    \o (IF term.kind = "Call" THEN Call_log(term, state, depth)
        ELSE IF term.kind = "Expression" THEN Operation_log(term, state, depth)
        ELSE IF term.kind = "Boolean"
        THEN (IF term.b THEN <<Yield(state)>> ELSE <<>>)
        ELSE <<Abort(Todo)>>)

(***************************************************************************)
(* Query::run                                                              *)
(***************************************************************************)
Range(s) == {s[i] : i \in DOMAIN s}

\* lines 39-52: the record of one solution state; Diverged where the walk
\* of a binding never returns
project(variables, state) ==
    [v \in Range(variables) |->
        IF v \in DOMAIN state THEN walk(state, state[v]) ELSE Var(v)]

RECURSIVE map_project(_, _, _)
map_project(variables, states, i) ==
    IF i > Len(states.out) THEN Results(<<>>, states.abort)
    ELSE
    LET rec == project(variables, states.out[i])
    IN  IF \E v \in DOMAIN rec : rec[v] = Diverged
        THEN Results(<<>>, Endless)
        ELSE
        LET rest == map_project(variables, states, i + 1)
        IN  Results(<<rec>> \o rest.out, rest.abort)

Query_run(variables, term) ==
    map_project(variables, Term_run(term, EmptyBindings, MaxDepth), 1)



(***************************************************************************)
(* The inputs: the terms a policy and a query are made of.                 *)
(***************************************************************************)
\* The rules of one group take MaxRules candidates at most.
MaxRules == 2
\* A conjunction has MaxConj conjuncts at most.
MaxConj == 2

\* The terms of a policy: variables without a tag, and numbers.
ArgTerms == {Var(n) : n \in Names} \cup {Number(k) : k \in Nums}
\* The terms a walk can return as well: variables that carry a tag.
AllTerms == ArgTerms \cup {Variable(n, t) : n \in Names, t \in Tags}
InstanceLiterals == {InstanceLiteral(t) : t \in Tags}
Specializers == {NoTerm} \cup InstanceLiterals
Parameters == {Parameter(p, s) : p \in ArgTerms, s \in Specializers}

SeqsUpTo(S, n) == UNION {[1..k -> S] : k \in 0..n}

\* Rule bodies: true, and x = 1
Bodies == {Boolean(TRUE), Operation("Unify", <<Var("x"), Number(1)>>)}
\* The bodies of the rules of g: true, and a goal that is not implemented.
Bodies2 == {Boolean(TRUE), Number(1)}
Foo == InstanceLiteral("Foo")
Bar == InstanceLiteral("Bar")
\* The rules of group f have one parameter, those of group g two.
Rules1 ==
    {Rule(<<Parameter(p, NoTerm)>>, b) : p \in ArgTerms, b \in Bodies}
    \cup {Rule(<<Parameter(p, Foo)>>, Boolean(TRUE)) :
            p \in {Var("x"), Number(1)}}
Rules2 ==
    {Rule(<<Parameter(p, s), Parameter(q, t)>>, b) :
        p \in {Var("x"), Number(1)}, s \in {NoTerm, Foo},
        q \in {Var("x"), Var("y"), Number(1)}, t \in {NoTerm, Bar},
        b \in Bodies2}

KnowledgeBases ==
    {[n \in {"f"} |-> rs] : rs \in SeqsUpTo(Rules1, MaxRules)}
    \cup {[n \in {"g"} |-> <<r>>] : r \in Rules2}

\* Calls of the two groups, and one of a name that has no rule group.
Calls ==
    {Call("f", <<a>>) : a \in ArgTerms}
    \cup {Call("g", <<a, b>>) : a, b \in ArgTerms}
    \cup {Call("h", <<Var("x")>>)}
Conjuncts ==
    {Operation("Unify", <<Var("x"), Number(1)>>),
     Operation("Eq", <<Var("x"), Number(2)>>),
     Operation("Unify", <<Var("y"), Var("x")>>),
     Call("f", <<Var("x")>>),
     Call("h", <<Var("x")>>),
     Number(1)}
Conjunctions == {Operation("And", cs) : cs \in SeqsUpTo(Conjuncts, MaxConj)}
Unsupported == {Number(1), Operation("Or", <<Boolean(TRUE), Boolean(TRUE)>>)}
Goals ==
    {Boolean(TRUE), Boolean(FALSE)} \cup Calls \cup Conjunctions
    \cup Unsupported

\* The rule names a goal calls, at any depth.
RECURSIVE Called(_)
Called(term) ==
    IF term.kind = "Call" THEN {term.name}
    ELSE IF term.kind = "Expression"
    THEN UNION {Called(term.args[i]) : i \in DOMAIN term.args}
    ELSE {}
\* The goals put to a knowledge base call its groups, or the unknown h.
GoalsOf(k) == {t \in Goals : Called(t) \subseteq (DOMAIN k) \cup {"h"}}
Requests == {<<>>, <<"x">>, <<"x", "y">>}

(***************************************************************************)
(* The state machine.                                                      *)
(***************************************************************************)
Init ==
    /\ kb \in KnowledgeBases
    /\ bindings = EmptyBindings
    /\ last = [op |-> "new", ok |-> TRUE, n |-> 0]
    /\ results = empty
    /\ records = empty

\* The branch holds a State on which the next operation can act.
Live == last.op \in {"new", "unify", "isa", "resume"} /\ last.ok

\* state.unify(l, r)
StateUnify(l, r) ==
    /\ Live /\ last.n < MaxOps
    /\ LET u == unify(bindings, l, r)
       IN  /\ bindings' = u.bindings
           /\ last' = [op |-> "unify", ok |-> u.ok, n |-> last.n + 1]
    /\ UNCHANGED <<kb, results, records>>

\* state.isa(l, r)
StateIsa(l, r) ==
    /\ Live /\ last.n < MaxOps
    /\ LET u == isa(bindings, l, r)
       IN  /\ bindings' = u.bindings
           /\ last' = [op |-> "isa", ok |-> u.ok, n |-> last.n + 1]
    /\ UNCHANGED <<kb, results, records>>

\* term.run(state): the goal consumes the State and yields its results
TermRun(term) ==
    /\ Live /\ last.n < MaxOps
    /\ results' = Term_run(term, bindings, MaxDepth)
    /\ last' = [op |-> "run", ok |-> TRUE, n |-> last.n + 1, term |-> term]
    /\ UNCHANGED <<kb, bindings, records>>

\* The consumer of the results (a flat_map) goes on from the i-th of them.
Resume(i) ==
    /\ last.op = "run"
    /\ i \in 1..Len(results.out)
    /\ bindings' = results.out[i]
    /\ last' = [op |-> "resume", ok |-> TRUE, n |-> last.n]
    /\ results' = empty
    /\ UNCHANGED <<kb, records>>

\* query.run(), with the records collected
QueryRun(variables, term) ==
    /\ last.op = "new"
    /\ records' = Query_run(variables, term)
    /\ last' = [op |-> "query", ok |-> TRUE, n |-> 1,
                variables |-> variables, term |-> term]
    /\ UNCHANGED <<kb, bindings, results>>

Next ==
    \/ \E l \in AllTerms, r \in ArgTerms : StateUnify(l, r)
    \/ \E l \in AllTerms, s \in InstanceLiterals : StateIsa(l, s)
    \/ \E term \in GoalsOf(kb) : TermRun(term)
    \/ \E i \in DOMAIN results.out : Resume(i)
    \/ \E variables \in Requests, term \in GoalsOf(kb) :
            QueryRun(variables, term)

Spec == Init /\ [][Next]_vars

(***************************************************************************)
(* Vocabulary of the properties.                                           *)
(***************************************************************************)
\* The last operation ran a goal of this kind from bindings.
RanCall ==
    last.op = "run" /\ last.term.kind = "Call" /\ last.term.name \in DOMAIN kb
RanAnd ==
    /\ last.op = "run" /\ last.term.kind = "Expression"
    /\ last.term.operator = "And"
QueriedCall ==
    last.op = "query" /\ last.term.kind = "Call"
    /\ last.term.name \in DOMAIN kb

\* The pairs the loop of Call::run zips.
Pairs(call, r) == 1..Min(Len(call.args), Len(r.params))
\* The outcome of matching call against rule r from the caller's state.
Match(call, r, state) == match_params(call.args, r.params, 1, state, MatchStart)
\* The solutions of the body of r, run from the inner state of the match.
BodyRun(call, r, state) ==
    Term_run(r.body, Match(call, r, state).inner, MaxDepth - 1)

\* Where each result of a call comes from: <<j, k>> for the k-th result of
\* the j-th candidate.
RECURSIVE Origin(_, _, _, _)
Origin(call, rules, j, state) ==
    IF j > Len(rules) THEN <<>>
    ELSE
    LET c == candidate_run(call, rules[j], state, MaxDepth - 1)
    IN  [k \in 1..Len(c.out) |-> <<j, k>>]
        \o (IF c.abort # NoAbort THEN <<>>
            ELSE Origin(call, rules, j + 1, state))

RECURSIVE SumLen(_, _)
SumLen(f, n) == IF n = 0 THEN 0 ELSE f[n] + SumLen(f, n - 1)

(***************************************************************************)
(* C1.  The results of Call::run are the concatenation, in candidate       *)
(* order, of the results of the candidates: a candidate whose parameters   *)
(* all match has one result per solution of its body, a candidate that     *)
(* does not match has none.                                                *)
(***************************************************************************)
C1_Contribution(call, r, state) ==
    IF Match(call, r, state).applicable
    THEN Len(BodyRun(call, r, state).out) ELSE 0

C1_CallConcatenatesCandidates ==
    RanCall =>
        LET call == last.term
            rules == kb[call.name]
            each == [j \in DOMAIN rules |->
                        candidate_run(call, rules[j], bindings, MaxDepth - 1)]
        IN  /\ \A j \in DOMAIN rules :
                  Len(each[j].out) = C1_Contribution(call, rules[j], bindings)
            /\ Len(results.out) =
                  SumLen([j \in DOMAIN rules |-> Len(each[j].out)], Len(rules))
            /\ \A n \in DOMAIN results.out :
                  LET o == Origin(call, rules, 1, bindings)[n]
                  IN  results.out[n] = each[o[1]].out[o[2]]

(***************************************************************************)
(* C2.  Where an argument of a call walks to an unbound variable in the    *)
(* caller's state and the parameter it is matched with walks to a number c *)
(* in a solution of the rule's body, the result of the call for that       *)
(* solution resolves the argument to c, and so does the record of a query  *)
(* for it; allow(x) := x = 1 queried for x by allow(x) gives exactly one   *)
(* record, {x: 1}.                                                         *)
(***************************************************************************)
C2_Exports(call, state, out) ==
    LET rules == kb[call.name]
        origin == Origin(call, rules, 1, state)
    IN  /\ Len(origin) = Len(out)
        /\ \A n \in DOMAIN out :
              LET r == rules[origin[n][1]]
                  inner == BodyRun(call, r, state).out[origin[n][2]]
              IN  \A i \in Pairs(call, r) :
                      LET c == walk(inner, r.params[i].parameter)
                      IN  ( /\ call.args[i].kind = "Variable"
                            /\ walk(state, call.args[i]).kind = "Variable"
                            /\ c.kind = "Number" )
                          => walk(out[n], call.args[i]) = c

AllowX1 ==
    [n \in {"f"} |->
        <<Rule(<<Parameter(Var("x"), NoTerm)>>,
               Operation("Unify", <<Var("x"), Number(1)>>))>>]

C2_CallBindsArgument ==
    /\ RanCall => C2_Exports(last.term, bindings, results.out)
    /\ QueriedCall =>
          LET call == last.term
              states == Term_run(call, EmptyBindings, MaxDepth)
          IN  /\ C2_Exports(call, EmptyBindings, states.out)
              /\ \A n \in DOMAIN records.out : \A i \in DOMAIN call.args :
                    ( /\ call.args[i].kind = "Variable"
                      /\ call.args[i].name \in Range(last.variables)
                      /\ walk(states.out[n], call.args[i]).kind = "Number" )
                    => records.out[n][call.args[i].name]
                          = walk(states.out[n], call.args[i])
    /\ ( /\ QueriedCall /\ kb = AllowX1
         /\ last.variables = <<"x">> /\ last.term = Call("f", <<Var("x")>>) )
       => records = Results(<<[v \in {"x"} |-> Number(1)]>>, NoAbort)

C2_Witness ==
    /\ QueriedCall /\ kb = AllowX1
    /\ last.variables = <<"x">> /\ last.term = Call("f", <<Var("x")>>)
    /\ Len(records.out) = 1

(***************************************************************************)
(* C3.  With the single rule allow(x) := true, the query for x by allow(x) *)
(* gives exactly one record, which maps x to the unbound variable x.       *)
(***************************************************************************)
AllowX ==
    [n \in {"f"} |-> <<Rule(<<Parameter(Var("x"), NoTerm)>>, Boolean(TRUE))>>]

C3_UnboundPlaceholder ==
    ( /\ last.op = "query" /\ kb = AllowX
      /\ last.variables = <<"x">> /\ last.term = Call("f", <<Var("x")>>) )
    => records = Results(<<[v \in {"x"} |-> Var("x")]>>, NoAbort)

(***************************************************************************)
(* C4.  The results of And(G1, ..., Gn) from a state are those of G1, each *)
(* followed through G2, ..., Gn before the next one of G1 is: later        *)
(* conjuncts run from the states earlier ones produced.  And(x = 1, x = 2) *)
(* has no result.                                                          *)
(***************************************************************************)
RECURSIVE C4_Conj(_, _, _)
RECURSIVE C4_Each(_, _, _, _)
\* the solutions of the conjuncts i.. of args, from state
C4_Conj(args, i, state) ==
    IF i > Len(args) THEN once(state)
    ELSE C4_Each(args, i, Term_run(args[i], state, MaxDepth), 1)
\* ... continued from the k-th solution of conjunct i onwards
C4_Each(args, i, first, k) ==
    IF k > Len(first.out) THEN Results(<<>>, first.abort)
    ELSE
    LET r == C4_Conj(args, i + 1, first.out[k])
    IN  IF r.abort # NoAbort THEN r
        ELSE
        LET rest == C4_Each(args, i, first, k + 1)
        IN  Results(r.out \o rest.out, rest.abort)

C4_Scenario ==
    Operation("And", <<Operation("Unify", <<Var("x"), Number(1)>>),
                       Operation("Eq", <<Var("x"), Number(2)>>)>>)

C4_ConjunctionBacktracks ==
    RanAnd =>
        LET expected == C4_Conj(last.term.args, 1, bindings)
        IN  /\ results.out = expected.out
            /\ (results.abort = NoAbort) = (expected.abort = NoAbort)
            /\ (last.term = C4_Scenario /\ bindings = EmptyBindings)
                  => results = empty

C4_Witness ==
    /\ RanAnd /\ Len(last.term.args) = 2
    /\ last.term.args[1].kind = "Call"
    /\ last.term.args[2].kind = "Expression"
    /\ Len(Term_run(last.term.args[1], bindings, MaxDepth).out) = 2
    /\ Len(results.out) = 1

(***************************************************************************)
(* C5.  Query::run yields one record per solution state of the goal, in    *)
(* order; its keys are the requested names; a name bound in the solution   *)
(* maps to its binding walked, another to the unbound variable of that     *)
(* name.                                                                   *)
(***************************************************************************)
C5_RecordPerSolution ==
    last.op = "query" =>
        LET states == Term_run(last.term, EmptyBindings, MaxDepth)
        IN  /\ Len(records.out) = Len(states.out)
            /\ \A n \in DOMAIN records.out :
                  /\ DOMAIN records.out[n] = Range(last.variables)
                  /\ \A v \in Range(last.variables) :
                        records.out[n][v] =
                            IF v \in DOMAIN states.out[n]
                            THEN walk(states.out[n], states.out[n][v])
                            ELSE Var(v)

(***************************************************************************)
(* The states the properties of walk, unify and isa range over: the state  *)
(* of the branch, the results of the last goal and, after a call, the      *)
(* inner state of each candidate, as matching left it and as each solution *)
(* of the body left it.  A goal and a query leave bindings as it was, so   *)
(* bindings is looked at in the state that the step building it reaches.   *)
(***************************************************************************)
InnerStates ==
    IF RanCall
    THEN UNION {
            {Match(last.term, kb[last.term.name][j], bindings).inner}
            \cup (IF Match(last.term, kb[last.term.name][j], bindings).applicable
                  THEN Range(BodyRun(last.term, kb[last.term.name][j],
                                     bindings).out)
                  ELSE {})
            : j \in DOMAIN kb[last.term.name]}
    ELSE {}
States ==
    (IF last.op \in {"run", "query"} THEN {} ELSE {bindings})
    \cup Range(results.out) \cup InnerStates

\* No walk in the state runs without end.
Acyclic(state) == \A t \in AllTerms : walk(state, t) # Diverged

(***************************************************************************)
(* C6.  In every state that unify and isa build, unify(a, b) and           *)
(* unify(b, a) both succeed or both fail, and after a success a and b walk *)
(* to the same term.                                                       *)
(***************************************************************************)
C6_UnifySymmetric ==
    \A state \in States : \A a, b \in AllTerms :
        LET u == unify(state, a, b)
            v == unify(state, b, a)
        IN  /\ u.ok = v.ok
            /\ u.abort = v.abort
            /\ u.ok => walk(u.bindings, a) = walk(u.bindings, b)
            /\ v.ok => walk(v.bindings, a) = walk(v.bindings, b)

\* unify has bound one variable to another in a state that isa had tagged
C6_Witness ==
    /\ last.op = "unify" /\ last.ok /\ last.n = 2
    /\ \E n \in DOMAIN bindings :
          /\ bindings[n].kind = "Variable" /\ bindings[n].name # n
          /\ bindings[n].type_info # None

(***************************************************************************)
(* C7.  walk is idempotent: a term that walk returns walks to itself, also *)
(* where the binding of a variable is the variable itself with the tag     *)
(* that isa recorded.                                                      *)
(***************************************************************************)
C7_WalkIdempotent ==
    \A state \in States : \A t \in AllTerms :
        LET w == walk(state, t)
        IN  w # Diverged => walk(state, w) = w

C7_Witness ==
    /\ last.op = "isa" /\ last.ok
    /\ \E n \in DOMAIN bindings :
          /\ bindings[n].kind = "Variable" /\ bindings[n].name = n
          /\ bindings[n].type_info # None
          /\ walk(bindings, Var(n)) = bindings[n]
          /\ walk(bindings, walk(bindings, Var(n))) = bindings[n]

(***************************************************************************)
(* C8.  No state reached during a query binds variables in a cycle: every  *)
(* walk returns.                                                           *)
(***************************************************************************)
C8_NoCycle == \A state \in States : Acyclic(state)

(***************************************************************************)
(* C9.  A candidate one of whose arguments unifies with the parameter's    *)
(* pattern but fails the isa check of its specializer has no result, its   *)
(* body is not run, and the results of the call are those of the other     *)
(* candidates.                                                             *)
(***************************************************************************)
\* the match of the pairs before the i-th
Before(call, r, i, state) ==
    match_params(call.args, SubSeq(r.params, 1, i - 1), 1, state, MatchStart)
\* the i-th pair is reached, its unify succeeds
UnifiesAt(call, r, i, state) ==
    LET before == Before(call, r, i, state)
        arg == walk(state, call.args[i])
    IN  /\ before.applicable /\ arg # Diverged
        /\ unify(before.inner, arg, r.params[i].parameter).ok
\* ... and then the isa check of its specializer fails
FailsIsaAt(call, r, i, state) ==
    LET before == Before(call, r, i, state)
        arg == walk(state, call.args[i])
        u == unify(before.inner, arg, r.params[i].parameter)
        s == isa(u.bindings, arg, r.params[i].specializer)
    IN  /\ UnifiesAt(call, r, i, state)
        /\ r.params[i].specializer # NoTerm
        /\ ~s.ok /\ ~s.abort

Without(rules, j) ==
    [k \in 1..(Len(rules) - 1) |-> IF k < j THEN rules[k] ELSE rules[k + 1]]

C9_SpecializerGates ==
    RanCall =>
        LET call == last.term
            rules == kb[call.name]
        IN  \A j \in DOMAIN rules :
                (\E i \in Pairs(call, rules[j]) :
                    FailsIsaAt(call, rules[j], i, bindings))
                => /\ candidate_run(call, rules[j], bindings, MaxDepth - 1)
                        = empty
                   /\ results = flat_map_rules(call, Without(rules, j), 1,
                                               bindings, MaxDepth - 1)

\* such a candidate, whose body would have aborted the query had it run
C9_Witness ==
    /\ RanCall /\ results = empty
    /\ \E j \in DOMAIN kb[last.term.name] :
          /\ \E i \in Pairs(last.term, kb[last.term.name][j]) :
                FailsIsaAt(last.term, kb[last.term.name][j], i, bindings)
          /\ kb[last.term.name][j].body = Number(1)

(***************************************************************************)
(* C10.  Matching checks the pairs in order and ends at the first that     *)
(* fails to unify or fails its specializer: no later pair is unified or    *)
(* isa-checked, the body is not run, nothing of them is in a result.       *)
(***************************************************************************)
FailsAt(call, r, i, state) ==
    /\ Before(call, r, i, state).applicable
    /\ walk(state, call.args[i]) # Diverged
    /\ \/ ~UnifiesAt(call, r, i, state)
       \/ FailsIsaAt(call, r, i, state)

\* the isa checks of the first n pairs, when all of them are made
RECURSIVE Specialized(_, _)
Specialized(params, n) ==
    IF n = 0 THEN 0
    ELSE Specialized(params, n - 1)
         + (IF params[n].specializer # NoTerm THEN 1 ELSE 0)

\* the names of the variables among the first n arguments and patterns
NamesUpTo(call, r, n, state) ==
    {t.name : t \in {u \in {walk(state, call.args[i]) : i \in 1..n}
                            \cup {r.params[i].parameter : i \in 1..n} :
                        u.kind = "Variable"}}

C10_MatchShortCircuits ==
    RanCall =>
        LET call == last.term
            rules == kb[call.name]
        IN  \A j \in DOMAIN rules : \A i \in Pairs(call, rules[j]) :
                FailsAt(call, rules[j], i, bindings) =>
                    LET m == Match(call, rules[j], bindings)
                    IN  /\ ~m.applicable
                        /\ m.unified = i
                        /\ m.isa_checked =
                              Specialized(rules[j].params, i - 1)
                              + (IF FailsIsaAt(call, rules[j], i, bindings)
                                 THEN 1 ELSE 0)
                        /\ DOMAIN m.inner
                              \subseteq NamesUpTo(call, rules[j], i, bindings)
                        /\ candidate_run(call, rules[j], bindings,
                                         MaxDepth - 1) = empty
                        /\ \A n \in DOMAIN results.out :
                              Origin(call, rules, 1, bindings)[n][1] # j

\* the first of two pairs fails, and the body would have aborted the query
C10_Witness ==
    /\ RanCall /\ Len(last.term.args) = 2
    /\ \E j \in DOMAIN kb[last.term.name] :
          /\ Len(kb[last.term.name][j].params) = 2
          /\ kb[last.term.name][j].params[2].specializer # NoTerm
          /\ kb[last.term.name][j].body = Number(1)
          /\ FailsAt(last.term, kb[last.term.name][j], 1, bindings)
    /\ results = empty

(***************************************************************************)
(* Vocabulary of the properties of aborts.                                 *)
(***************************************************************************)
\* The goals Term::run and Operation::run have an arm for.
Supported(term) ==
    /\ term.kind \in {"Boolean", "Call", "Expression"}
    /\ term.kind = "Expression" => term.operator \in {"Unify", "Eq", "And"}
\* A call of a name that has no rule group.
UnknownCall(term) == term.kind = "Call" /\ term.name \notin DOMAIN kb
\* The conjuncts before the i-th have a solution from state, so that the
\* conjunction runs its i-th conjunct.
RunsConjunct(args, i, state) ==
    Len(C4_Conj(SubSeq(args, 1, i - 1), 1, state).out) >= 1
\* The goal of the last query, run from the empty state.
QueryStates == Term_run(last.term, EmptyBindings, MaxDepth)

(***************************************************************************)
(* C11.  A goal whose value is not a Boolean, a Call or an Expression, and *)
(* an operation whose operator is not Unify, Eq or And, aborts when it is  *)
(* run: it yields neither a state nor an empty result sequence, whether it *)
(* is the goal itself, a conjunct that the conjunction runs or the body of *)
(* a matching rule, and the query that runs it aborts.  A goal that ends   *)
(* with an empty result sequence is not such a goal.                       *)
(***************************************************************************)
C11_UnsupportedAborts ==
    /\ (last.op = "run" /\ ~Supported(last.term))
          => results = Results(<<>>, Todo)
    /\ (last.op = "run" /\ results = empty) => Supported(last.term)
    /\ RanAnd =>
          \A i \in DOMAIN last.term.args :
              (~Supported(last.term.args[i])
                  /\ RunsConjunct(last.term.args, i, bindings)
                  /\ \A k \in 1..(i - 1) : Supported(last.term.args[k]))
              => results = Results(<<>>, Todo)
    /\ RanCall =>
          \A j \in DOMAIN kb[last.term.name] :
              LET r == kb[last.term.name][j]
              IN  (Match(last.term, r, bindings).applicable
                      /\ ~Supported(r.body))
                  => /\ candidate_run(last.term, r, bindings, MaxDepth - 1)
                            = Results(<<>>, Todo)
                     /\ results.abort # NoAbort
                     /\ \A n \in DOMAIN results.out :
                            Origin(last.term, kb[last.term.name], 1,
                                   bindings)[n][1] < j
    /\ (last.op = "query" /\ QueryStates.abort = Todo)
          => records.abort = Todo

\* a conjunction ran a number as a goal from a solution of a call
C11_Witness ==
    /\ RanAnd /\ Len(last.term.args) = 2
    /\ last.term.args[1].kind = "Call" /\ last.term.args[1].name \in DOMAIN kb
    /\ last.term.args[2] = Number(1)
    /\ Len(Term_run(last.term.args[1], bindings, MaxDepth).out) >= 1
    /\ results = Results(<<>>, Todo)

(***************************************************************************)
(* C12.  A call of a name that has no rule group aborts the query: the     *)
(* call yields no state and no empty result sequence, as the goal itself   *)
(* and as a conjunct that a conjunction runs.                              *)
(***************************************************************************)
C12_UnknownRuleAborts ==
    /\ (last.op = "run" /\ UnknownCall(last.term))
          => results = Results(<<>>, NoMatchingRules)
    /\ RanAnd =>
          \A i \in DOMAIN last.term.args :
              (UnknownCall(last.term.args[i])
                  /\ RunsConjunct(last.term.args, i, bindings)
                  /\ \A k \in 1..(i - 1) :
                        Supported(last.term.args[k])
                        /\ ~UnknownCall(last.term.args[k]))
              => results = Results(<<>>, NoMatchingRules)
    /\ (last.op = "query" /\ QueryStates.abort = NoMatchingRules)
          => records.abort = NoMatchingRules
    /\ (last.op = "query" /\ UnknownCall(last.term))
          => records = Results(<<>>, NoMatchingRules)

\* a query ran the call of an unknown name after a conjunct that has a solution
C12_Witness ==
    /\ last.op = "query"
    /\ last.term = Operation("And", <<Operation("Unify", <<Var("x"), Number(1)>>),
                                      Call("h", <<Var("x")>>)>>)
    /\ records = Results(<<>>, NoMatchingRules)

(***************************************************************************)
(* Vocabulary of the properties of the order of evaluation.                *)
(***************************************************************************)
\* The log of the goal that the last operation ran.
RunLog == Term_log(last.term, bindings, MaxDepth)
\* The states a log delivers, and how it ends.
Yields(log) ==
    LET ys == SelectSeq(log, LAMBDA e : e.ev = "yield")
    IN  [i \in 1..Len(ys) |-> ys[i].state]
LogAbort(log) == IF Aborted(log) THEN log[Len(log)].kind ELSE NoAbort
\* The number of states delivered before the p-th event.
YieldsBefore(log, p) == Cardinality({q \in 1..(p - 1) : log[q].ev = "yield"})
\* The events a consumer causes that pulls n states and stops.
Pulled(log, n) == {p \in DOMAIN log : YieldsBefore(log, p) < n}
\* The runs, up to the p-th event, of the bodies of rules (after: 1) and of
\* the second conjunct (after: 2) of the goal of the log.
RunsUpTo(log, p, after, depth) ==
    {q \in (after + 1)..p : log[q].ev = "run" /\ log[q].depth = depth}
\* Which solution of the first conjunct each result of And(G1, G2) continues.
RECURSIVE AndOrigin(_, _, _)
AndOrigin(sols, G2, k) ==
    IF k > Len(sols) THEN <<>>
    ELSE
    LET r == Term_run(G2, sols[k], MaxDepth)
    IN  [i \in 1..Len(r.out) |-> k]
        \o (IF r.abort # NoAbort THEN <<>> ELSE AndOrigin(sols, G2, k + 1))

(***************************************************************************)
(* C13.  Evaluation is driven by the pulls of the consumer.  The states    *)
(* the log of a goal delivers are its results.  Up to the delivery of the  *)
(* n-th result of a call, no candidate after the one that result comes     *)
(* from is matched and no body of such a candidate is run; up to the       *)
(* delivery of the n-th result of And(G1, G2), G2 is run only on the       *)
(* solutions of G1 up to the one that result continues.  So a consumer     *)
(* that stops after n results never causes a later alternative to be       *)
(* evaluated.                                                              *)
(***************************************************************************)
C13_PullDriven ==
    /\ last.op = "run" =>
          /\ Yields(RunLog) = results.out
          /\ LogAbort(RunLog) = results.abort
    /\ RanCall =>
          LET origin == Origin(last.term, kb[last.term.name], 1, bindings)
          IN  \A n \in DOMAIN results.out : \A p \in Pulled(RunLog, n) :
                  /\ RunLog[p].ev = "matching"
                        => RunLog[p].rule <= origin[n][1]
                  /\ Cardinality(RunsUpTo(RunLog, p, 1, MaxDepth - 1))
                        <= origin[n][1]
    /\ (RanAnd /\ Len(last.term.args) = 2) =>
          LET G1 == last.term.args[1]
              G2 == last.term.args[2]
              sols == Term_run(G1, bindings, MaxDepth).out
              origin == AndOrigin(sols, G2, 1)
          IN  /\ Len(origin) = Len(results.out)
              /\ \A n \in DOMAIN results.out : \A p \in Pulled(RunLog, n) :
                    LET k == Cardinality(RunsUpTo(RunLog, p, 2, MaxDepth))
                    IN  /\ k <= origin[n]
                        /\ (p > 2 /\ RunLog[p].ev = "run"
                               /\ RunLog[p].depth = MaxDepth)
                           => RunLog[p] = RunTerm(G2, sols[k], MaxDepth)

\* the first candidate of a call has delivered its result; the second, which
\* aborts when it is evaluated, is entered only after that
C13_Witness ==
    /\ RanCall /\ Len(kb[last.term.name]) = 2
    /\ Len(results.out) = 1 /\ results.abort # NoAbort
    /\ \E p \in DOMAIN RunLog :
          /\ RunLog[p] = Matching(last.term, 2)
          /\ YieldsBefore(RunLog, p) = 1
          /\ p \notin Pulled(RunLog, 1)

(***************************************************************************)
(* Vocabulary of the properties of the effect on a frame.                  *)
(***************************************************************************)
\* The names whose binding differs between two frames.
Changed(before, after) ==
    {n \in (DOMAIN before) \cup (DOMAIN after) :
        \/ n \notin DOMAIN before
        \/ n \notin DOMAIN after
        \/ before[n] # after[n]}
\* A variable that the frame does not bind to anything but itself.
Unbound(state, t) ==
    /\ t.kind = "Variable"
    /\ t.name \notin DOMAIN state \/ state[t.name] = t

(***************************************************************************)
(* C14.  A unify call that returns changes the bindings by one insertion   *)
(* at most.  When it fails, and when the two walked sides are equal (then  *)
(* it succeeds), the bindings are as before.  Otherwise it succeeds with   *)
(* exactly one name bound anew: the name of a walked side that is an       *)
(* unbound variable, bound to the other walked side.                       *)
(***************************************************************************)
C14_UnifyOneInsertion ==
    \A state \in States : \A a, b \in AllTerms :
        LET l == walk(state, a)
            r == walk(state, b)
            u == unify(state, a, b)
        IN  ~u.abort =>
              /\ Cardinality(Changed(state, u.bindings)) <= 1
              /\ l = r => (u.ok /\ u.bindings = state)
              /\ ~u.ok => u.bindings = state
              /\ (u.ok /\ l # r) =>
                    /\ Cardinality(Changed(state, u.bindings)) = 1
                    /\ \E side \in {<<l, r>>, <<r, l>>} :
                          /\ Unbound(state, side[1])
                          /\ u.bindings = Insert(state, side[1].name, side[2])

\* two unify calls have each inserted one binding
C14_Witness ==
    /\ last.op = "unify" /\ last.ok /\ last.n = 2
    /\ DOMAIN bindings = {"x", "y"}
    /\ bindings["x"].kind = "Number"
    /\ bindings["y"].kind = "Variable"

(***************************************************************************)
(* C15.  The type tag of a variable is assigned once.  When isa tags an    *)
(* untagged variable v with T, every isa(v, pattern with tag U) on the     *)
(* frame succeeds exactly if U = T; and a unify or isa operation applied   *)
(* to a frame of which that is true leaves a frame of which it is true.    *)
(* The property is stated for the operations after which v still resolves  *)
(* to a variable: binding v to a number ends every isa on v anyway.        *)
(***************************************************************************)
\* isa(v, pattern with tag U) succeeds on the frame exactly if U = T
TagChecked(state, v, T) ==
    \A U \in Tags : isa(state, Var(v), InstanceLiteral(U)).ok <=> (U = T)
\* the step is a unify or an isa operation on the frame of the branch
UnifyOrIsaStep == last'.op \in {"unify", "isa"} /\ last'.n = last.n + 1

C15_TagAssignedOnce ==
    [][\A v \in Names, T \in Tags :
          /\ ( /\ UnifyOrIsaStep /\ last'.op = "isa" /\ last'.ok
               /\ walk(bindings, Var(v)) = Var(v)
               /\ walk(bindings', Var(v)) = Variable(v, T) )
             => TagChecked(bindings', v, T)
          /\ ( /\ UnifyOrIsaStep /\ TagChecked(bindings, v, T)
               /\ walk(bindings', Var(v)).kind = "Variable" )
             => TagChecked(bindings', v, T)]_vars

(***************************************************************************)
(* C16.  For every candidate of a call whose parameters all match and      *)
(* every solution of its body, each exported variable (each argument that  *)
(* walks to a variable in the caller's frame) has a binding in the inner   *)
(* frame of that solution: no call and no query ends with the abort "must  *)
(* be bound".                                                              *)
(***************************************************************************)
C16_ExportsAreBound ==
    /\ RanCall =>
          /\ \A j \in DOMAIN kb[last.term.name] :
                LET r == kb[last.term.name][j]
                    m == Match(last.term, r, bindings)
                IN  m.applicable =>
                      \A inner \in Range(BodyRun(last.term, r, bindings).out) :
                          Range(m.variables) \subseteq DOMAIN inner
          /\ results.abort # MustBeBound
    /\ last.op = "run" => results.abort # MustBeBound
    /\ last.op = "query" => records.abort # MustBeBound

(***************************************************************************)
(* C17.  Every result of a call run from the caller's frame f is f with    *)
(* the exported variables (the arguments that walk to a variable in f)     *)
(* rebound, each to what it resolves to in the inner frame of the solution *)
(* that result comes from: no binding of f under another name is removed   *)
(* or changed, no other name of the inner frame is added, and nothing of   *)
(* another candidate's result is in it.                                    *)
(***************************************************************************)
Exported(call, state) ==
    {w.name : w \in {t \in {walk(state, call.args[i]) : i \in DOMAIN call.args} :
                        t.kind = "Variable"}}

C17_CallFrameEffect ==
    RanCall =>
        LET call == last.term
            rules == kb[call.name]
            origin == Origin(call, rules, 1, bindings)
            exported == Exported(call, bindings)
        IN  /\ Len(origin) = Len(results.out)
            /\ \A n \in DOMAIN results.out :
                  LET out == results.out[n]
                      r == rules[origin[n][1]]
                      inner == BodyRun(call, r, bindings).out[origin[n][2]]
                  IN  /\ DOMAIN bindings \subseteq DOMAIN out
                      /\ DOMAIN out \subseteq (DOMAIN bindings) \cup exported
                      /\ Changed(bindings, out) \subseteq exported
                      /\ \A v \in exported :
                            /\ v \in DOMAIN inner
                            /\ out[v] = walk(inner, inner[v])

\* two candidates have each bound the argument of the call in a frame that
\* binds another name
C17_Witness ==
    /\ RanCall /\ DOMAIN bindings = {"y"}
    /\ last.term.args = <<Var("x")>>
    /\ Len(results.out) = 2
    /\ results.out[1]["x"] # results.out[2]["x"]
    /\ results.out[1]["y"] = bindings["y"]
    /\ results.out[2]["y"] = bindings["y"]

(***************************************************************************)
(* C18.  A resolved value is never replaced within a branch: a variable    *)
(* that walks to a term that is not a variable in a frame walks to the     *)
(* same term in the frame a unify or isa call leaves, in every result of a *)
(* goal (a unification, a conjunction, a call) run from the frame, and,    *)
(* in the inner frame of a rule, in every solution of the rule's body.     *)
(***************************************************************************)
Resolved(state, v) == walk(state, Var(v)).kind \notin {"Variable", "Diverged"}
Preserved(before, after) ==
    \A v \in Names :
        Resolved(before, v) => walk(after, Var(v)) = walk(before, Var(v))

C18_ResolvedValueKept ==
    /\ \A state \in States :
          /\ \A a, b \in AllTerms :
                Preserved(state, unify(state, a, b).bindings)
          /\ \A a \in AllTerms, s \in InstanceLiterals :
                Preserved(state, isa(state, a, s).bindings)
    /\ last.op = "run" =>
          \A n \in DOMAIN results.out : Preserved(bindings, results.out[n])
    /\ RanCall =>
          \A j \in DOMAIN kb[last.term.name] :
              LET r == kb[last.term.name][j]
                  m == Match(last.term, r, bindings)
              IN  m.applicable =>
                    \A inner \in Range(BodyRun(last.term, r, bindings).out) :
                        Preserved(m.inner, inner)

\* a call has delivered a result from a frame in which x is resolved, with a
\* rule whose parameter is named x as well
C18_Witness ==
    /\ RanCall /\ Resolved(bindings, "x")
    /\ last.term.args = <<Var("y")>>
    /\ Len(results.out) >= 1
    /\ \E j \in DOMAIN kb[last.term.name] :
          kb[last.term.name][j].params[1].parameter = Var("x")
    /\ Resolved(results.out[1], "x")

(***************************************************************************)
(* C19.  The inner frame of a rule is isolated from the caller's variables *)
(* by name: in every result of a call, an exported variable walks, in the  *)
(* caller's resulting frame, to the term it walks to in the inner frame of *)
(* the solution the result comes from, also where the rule uses a name     *)
(* that the caller's frame binds.                                          *)
(***************************************************************************)
C19_InnerFrameIsolated ==
    RanCall =>
        LET call == last.term
            rules == kb[call.name]
            origin == Origin(call, rules, 1, bindings)
        IN  \A n \in DOMAIN results.out :
                LET r == rules[origin[n][1]]
                    inner == BodyRun(call, r, bindings).out[origin[n][2]]
                IN  \A v \in Exported(call, bindings) :
                        walk(results.out[n], Var(v)) = walk(inner, Var(v))

====
